---- MODULE Spec2Model ----
(***************************************************************************)
(* Ride-hailing fare simulator: the FastAPI backend (Backend/main.py) and  *)
(* the Streamlit front end (app.py).                                       *)
(*                                                                         *)
(* Number representation.  The program computes with Python floats; the   *)
(* model keeps every quantity as an integer in a fixed unit:               *)
(*   surge multipliers      tenths           (1.2  is 12)                  *)
(*   distances              metres           (= thousandths of a km)       *)
(*   unrounded fares        thousandths of a currency unit                 *)
(*   fare * surge           ten-thousandths of a currency unit             *)
(*   rounded fares          hundredths       (60.00 is 6000)               *)
(*   percentages            hundredths of a percent                        *)
(* An absent value (Python None, an unset local) is the empty tuple and a *)
(* present value v is <<v>>.                                               *)
(***************************************************************************)
EXTENDS Integers, Sequences, FiniteSets, TLC

VARIABLES
    hour,                    \* datetime.now().hour, the wall clock
    \* ---- Backend/main.py, one calculate_ride request ----
    pc,                      \* position of the handler
    request,                 \* RideRequest(pickup, drop)
    lat1, lat2,              \* get_coordinates results (lon follows lat)
    distance,                \* nx.shortest_path_length, metres
    demand, supply, surge,   \* locals of lines 169-171
    market,                  \* driver_market_conditions() snapshot
    acceptance_probability,  \* local of line 178
    estimated_eta,           \* local of line 183
    fares,                   \* the nine calculate_fare results, catalog order
    fare_reads,              \* per fare: the increment and surge it was computed with
    status, detail,          \* HTTP status and error detail of the finished request
    response,                \* the JSON body of a 200 response
    draws,                   \* number of demand/supply draws made by this request
    \* ---- one application of a function of either file ----
    call,
    \* ---- app.py, the Streamlit script and its session ----
    session,                 \* st.session_state
    app_pickup, app_drop,    \* the two text inputs of the current run
    displayed,               \* the estimate rendered by the current run
    app_error,               \* the st.error message of the current run
    run_no,                  \* number of script runs so far
    last_run,                \* which path the latest run took
    computed_run,            \* the run that computed the retained estimate
    last_computed            \* the estimate computed by the latest successful request

vars == <<hour, pc, request, lat1, lat2, distance, demand, supply, surge, market,
          acceptance_probability, estimated_eta, fares, fare_reads, status, detail,
          response, draws, call, session, app_pickup, app_drop, displayed,
          app_error, run_no, last_run, computed_run, last_computed>>

req_vars == <<pc, request, lat1, lat2, distance, demand, supply, surge, market,
              acceptance_probability, estimated_eta, fares, fare_reads, status,
              detail, response, draws>>

app_vars == <<session, app_pickup, app_drop, displayed, app_error, run_no,
              last_run, computed_run, last_computed>>

None == <<>>
Some(v) == <<v>>

(***************************************************************************)
(* Bounds of the model.                                                    *)
(***************************************************************************)
DrawGrid == 2        \* a randint(a,b) draw takes DrawGrid+1 spread values of a..b
UniformGrid == 1     \* a uniform(a,b) draw takes UniformGrid+1 spread values
MaxDemand == 6       \* surge_multiplier is applied to demand 0..MaxDemand
MaxSupply == 4       \* ... and supply 0..MaxSupply (plus the spec's scenarios)
MaxMeters == 3       \* calculate_fare is applied to 0..MaxMeters metres (and 5000)
MaxRuns == 4         \* script runs of one Streamlit session

(***************************************************************************)
(* Random sources.                                                         *)
(***************************************************************************)
\* random.randint(a, b): an integer of a..b, both ends included.
randint(a, b) == {a + ((b - a) * k) \div DrawGrid : k \in 0..DrawGrid}

\* round(random.uniform(a, b), 2): a real of [a, b] with two decimals, in hundredths.
uniform2(a, b) == {100 * a + (100 * (b - a) * k) \div UniformGrid : k \in 0..UniformGrid}

\* round(x, 2) of a float x = n/unit hundredths.  Python rounds the binary value
\* of the float correctly; where the decimal value is an exact tie the float lies
\* on either side of it, so both neighbours are outcomes.
round_half(n, unit) ==
    LET q == n \div unit
        r == n % unit
    IN  IF 2 * r < unit THEN {q}
        ELSE IF 2 * r > unit THEN {q + 1}
        ELSE {q, q + 1}

(***************************************************************************)
(* Backend/main.py: pure functions.                                        *)
(***************************************************************************)
\* demand / supply < p / q for supply > 0, q > 0 (real division, line 51)
ratio_less(demand_, supply_, p, q) == demand_ * q < p * supply_

surge_multiplier_le1(demand_, supply_) ==
    IF supply_ = 0 THEN 20
    ELSE IF ~ratio_less(1, 1, demand_, supply_) THEN 10
    ELSE IF ratio_less(demand_, supply_, 3, 2) THEN 12
    ELSE IF ratio_less(demand_, supply_, 2, 1) THEN 15
    ELSE 20

surge_multiplier_le2(demand_, supply_) ==
    IF supply_ = 0 THEN 20
    ELSE IF ratio_less(demand_, supply_, 1, 1) THEN 10
    ELSE IF ratio_less(demand_, supply_, 3, 2) THEN 12
    ELSE IF ~ratio_less(2, 1, demand_, supply_) THEN 15
    ELSE 20

surge_multiplier(demand_, supply_) ==
    IF supply_ = 0 THEN 20
    ELSE IF ratio_less(demand_, supply_, 1, 1) THEN 10
    ELSE IF ratio_less(demand_, supply_, 3, 2) THEN 12
    ELSE IF ratio_less(demand_, supply_, 2, 1) THEN 15
    ELSE 20

\* The branch an if/elif chain takes: the first condition that holds, or one
\* past the last when none does (the code after the chain runs).
first_true(conds) ==
    IF \E i \in 1..Len(conds) : conds[i]
    THEN CHOOSE i \in 1..Len(conds) : conds[i] /\ \A j \in 1..(i - 1) : ~conds[j]
    ELSE Len(conds) + 1

\* The conditions of time_increment's chain, lines 74-82.
time_increment_conds(h) ==
    << 0 <= h /\ h < 6,
       6 <= h /\ h < 10,
       10 <= h /\ h < 15,
       15 <= h /\ h < 21,
       21 <= h /\ h <= 23 >>

\* The branch of time_increment taken at an hour; 6 is the fall-through of line 84.
time_increment_branch(h) == first_true(time_increment_conds(h))

time_increment(h) ==
    LET b == time_increment_branch(h)
    IN  IF b = 1 THEN 100
        ELSE IF b = 2 THEN 20
        ELSE IF b = 3 THEN 30
        ELSE IF b = 4 THEN 0
        ELSE IF b = 5 THEN 30
        ELSE 0

calculate_fare_surge_first(distance_meters, base, per_km, surge_, now) ==
    LET distance_km == distance_meters
        fare == base * 1000 + distance_km * per_km
    IN  {r + 100 * time_increment(now) : r \in round_half(fare * surge_, 100)}

calculate_fare_wrong_km(distance_meters, base, per_km, surge_, now) ==
    LET distance_km == distance_meters * 10
        base_price == base + time_increment(now)
        fare == base_price * 1000 + distance_km * per_km
    IN  round_half(fare * surge_, 100)

\* calculate_fare read at clock hour `now`: the set of values round() can return.
calculate_fare(distance_meters, base, per_km, surge_, now) ==
    LET distance_km == distance_meters
        base_price == base + time_increment(now)
        fare == base_price * 1000 + distance_km * per_km
    IN  round_half(fare * surge_, 100)

market_conds_gap(h) ==
    << 0 <= h /\ h < 6,
       6 <= h /\ h < 10,
       10 <= h /\ h < 15,
       15 <= h /\ h < 21,
       21 < h /\ h <= 23 >>

\* The conditions of driver_market_conditions' chain, lines 90-122.
market_conds(h) ==
    << 0 <= h /\ h < 6,
       6 <= h /\ h < 10,
       10 <= h /\ h < 15,
       15 <= h /\ h < 21,
       21 <= h /\ h <= 23 >>

\* The branch of driver_market_conditions taken at an hour; 6 is the fall-through
\* of line 130.
market_branch(h) == first_true(market_conds(h))

\* Per branch: the label and the bounds of the three draws (lines 91-135).
market_table ==
    << [level |-> "Very Low",    avail |-> <<10, 20>>,  prob |-> <<20, 50>>,  eta |-> <<8, 15>>],
       [level |-> "Low-Medium",  avail |-> <<40, 50>>,  prob |-> <<40, 50>>,  eta |-> <<5, 10>>],
       [level |-> "Medium",      avail |-> <<60, 75>>,  prob |-> <<60, 75>>,  eta |-> <<4, 8>>],
       [level |-> "High",        avail |-> <<80, 100>>, prob |-> <<80, 100>>, eta |-> <<2, 6>>],
       [level |-> "Medium-High", avail |-> <<50, 80>>,  prob |-> <<50, 80>>,  eta |-> <<4, 9>>],
       [level |-> "Unknown",     avail |-> <<40, 60>>,  prob |-> <<40, 60>>,  eta |-> <<5, 10>>] >>

\* driver_market_conditions read at clock hour h: the snapshots it can return.
driver_market_conditions(h) ==
    LET row == market_table[market_branch(h)]
    IN  { [availability_level |-> row.level,
           vehicle_availability_percent |-> a,
           acceptance_probability_percent |-> p,
           eta_minutes |-> e] :
          a \in uniform2(row.avail[1], row.avail[2]),
          p \in uniform2(row.prob[1], row.prob[2]),
          e \in randint(row.eta[1], row.eta[2]) }

\* The (base, per_km) pairs of lines 191-207, in the order they are evaluated.
catalog ==
    << [provider |-> "rapido", vehicle |-> "Bike", base |-> 10, per_km |-> 4],
       [provider |-> "rapido", vehicle |-> "Auto", base |-> 20, per_km |-> 6],
       [provider |-> "rapido", vehicle |-> "Car",  base |-> 30, per_km |-> 8],
       [provider |-> "ola",    vehicle |-> "Bike", base |-> 15, per_km |-> 5],
       [provider |-> "ola",    vehicle |-> "Auto", base |-> 30, per_km |-> 8],
       [provider |-> "ola",    vehicle |-> "Car",  base |-> 45, per_km |-> 11],
       [provider |-> "uber",   vehicle |-> "Bike", base |-> 20, per_km |-> 6],
       [provider |-> "uber",   vehicle |-> "Auto", base |-> 35, per_km |-> 9],
       [provider |-> "uber",   vehicle |-> "Car",  base |-> 55, per_km |-> 13] >>

(***************************************************************************)
(* app.py: pure functions.                                                 *)
(***************************************************************************)
app_surge_multiplier(demand_, supply_) ==
    IF supply_ = 0 THEN 20
    ELSE IF ratio_less(demand_, supply_, 1, 1) THEN 10
    ELSE IF ratio_less(demand_, supply_, 3, 2) THEN 12
    ELSE IF ratio_less(demand_, supply_, 2, 1) THEN 15
    ELSE 20

app_calculate_fare(distance_meters, base, per_km, surge_) ==
    LET distance_km == distance_meters
        fare == base * 1000 + distance_km * per_km
    IN  round_half(fare * surge_, 100)

(***************************************************************************)
(* Geocoding, both files.  A place is a sequence of characters; the        *)
(* geocoder answers with a hit, an empty result list, or a failure.        *)
(***************************************************************************)
Places == { <<>>, <<" ">>, <<" ", "a", " ">> }
Nominatim == {"hit", "empty", "error"}

RECURSIVE lstrip(_)
lstrip(s) == IF s # <<>> /\ Head(s) = " " THEN lstrip(Tail(s)) ELSE s

RECURSIVE rstrip(_)
rstrip(s) ==
    IF s # <<>> /\ s[Len(s)] = " " THEN rstrip(SubSeq(s, 1, Len(s) - 1)) ELSE s

strip(s) == rstrip(lstrip(s))

\* get_coordinates: None for a blank place, an empty result or an exception,
\* else the coordinates of the first result (identified here by the place).
get_coordinates(place, answer) ==
    IF place = <<>> \/ strip(place) = <<>> THEN None
    ELSE IF answer = "hit" THEN Some(strip(place))
    ELSE None

app_get_coordinates(place, answer) ==
    IF strip(place) = <<>> THEN None
    ELSE IF answer = "hit" THEN Some(strip(place))
    ELSE None

(***************************************************************************)
(* Initial state: the server is idle, no function has been applied, and    *)
(* the Streamlit session is new (st.session_state is empty).               *)
(***************************************************************************)
Init ==
    /\ hour = 0
    /\ pc = "idle"
    /\ request = None
    /\ lat1 = None
    /\ lat2 = None
    /\ distance = None
    /\ demand = None
    /\ supply = None
    /\ surge = None
    /\ market = None
    /\ acceptance_probability = None
    /\ estimated_eta = None
    /\ fares = None
    /\ fare_reads = None
    /\ status = 0
    /\ detail = ""
    /\ response = None
    /\ draws = 0
    /\ call = None
    /\ session = <<>>
    /\ app_pickup = <<>>
    /\ app_drop = <<>>
    /\ displayed = None
    /\ app_error = ""
    /\ run_no = 0
    /\ last_run = "none"
    /\ computed_run = 0
    /\ last_computed = None

\* The wall clock moves to the next hour.
Tick ==
    /\ hour' = (hour + 1) % 24
    /\ UNCHANGED <<req_vars, call, app_vars>>

(***************************************************************************)
(* Backend/main.py: POST /api/calculate-ride.                              *)
(***************************************************************************)
RouteDistances == {0, 1234, 5000}

\* A request arrives; the handler starts with fresh locals.
Receive(p, d) ==
    /\ pc \in {"idle", "done"}
    /\ pc' = "geocode"
    /\ request' = Some([pickup |-> p, drop |-> d])
    /\ lat1' = None
    /\ lat2' = None
    /\ distance' = None
    /\ demand' = None
    /\ supply' = None
    /\ surge' = None
    /\ market' = None
    /\ acceptance_probability' = None
    /\ estimated_eta' = None
    /\ fares' = None
    /\ fare_reads' = None
    /\ status' = 0
    /\ detail' = ""
    /\ response' = None
    /\ draws' = 0
    /\ UNCHANGED <<hour, call, app_vars>>

\* lines 143-144
Geocode(a1, a2) ==
    /\ pc = "geocode"
    /\ lat1' = get_coordinates(request[1].pickup, a1)
    /\ lat2' = get_coordinates(request[1].drop, a2)
    /\ pc' = "check"
    /\ UNCHANGED <<hour, request, distance, demand, supply, surge, market,
                   acceptance_probability, estimated_eta, fares, fare_reads,
                   status, detail, response, draws, call, app_vars>>

coordinates_missing_both(a, b) == a = None /\ b = None

\* line 146
coordinates_missing(a, b) == a = None \/ b = None

\* lines 146-147
CheckCoordinates ==
    /\ pc = "check"
    /\ IF coordinates_missing(lat1, lat2)
       THEN /\ status' = 400
            /\ detail' = "Invalid locations. Could not geocode."
            /\ pc' = "done"
       ELSE /\ pc' = "route"
            /\ UNCHANGED <<status, detail>>
    /\ UNCHANGED <<hour, request, lat1, lat2, distance, demand, supply, surge,
                   market, acceptance_probability, estimated_eta, fares,
                   fare_reads, response, draws, call, app_vars>>

\* lines 149-164: the graph download and shortest path either raise or give a
\* distance; a missing coordinate makes graph_from_point raise.  The outcome is
\* None for an exception and <<metres>> for a route.
Route(outcome) ==
    /\ pc = "route"
    /\ IF outcome = None \/ lat1 = None \/ lat2 = None
       THEN /\ status' = 500
            /\ detail' = "Route could not be calculated (locations might be too far apart)."
            /\ pc' = "done"
            /\ UNCHANGED distance
       ELSE /\ distance' = outcome
            /\ pc' = "simulate"
            /\ UNCHANGED <<status, detail>>
    /\ UNCHANGED <<hour, request, lat1, lat2, demand, supply, surge, market,
                   acceptance_probability, estimated_eta, fares, fare_reads,
                   response, draws, call, app_vars>>

\* lines 169-171
Simulate(dm, sp) ==
    /\ pc = "simulate"
    /\ demand' = Some(dm)
    /\ supply' = Some(sp)
    /\ surge' = Some(surge_multiplier(dm, sp))
    /\ draws' = draws + 1
    /\ pc' = "market"
    /\ UNCHANGED <<hour, request, lat1, lat2, distance, market,
                   acceptance_probability, estimated_eta, fares, fare_reads,
                   status, detail, response, call, app_vars>>

\* line 176
MarketConditions ==
    /\ pc = "market"
    /\ \E m \in driver_market_conditions(hour) : market' = Some(m)
    /\ pc' = "quote"
    /\ UNCHANGED <<hour, request, lat1, lat2, distance, demand, supply, surge,
                   acceptance_probability, estimated_eta, fares, fare_reads,
                   status, detail, response, draws, call, app_vars>>

\* All ways to pick one element from each set of a sequence of sets.
RECURSIVE choices(_)
choices(S) ==
    IF S = <<>> THEN {<<>>}
    ELSE {<<x>> \o rest : x \in Head(S), rest \in choices(Tail(S))}

\* The clock seen by the i-th of the handler's ten clock reads (nine fares, then
\* the response) when the hour changes after the t-th read.
hour_at(i, t) == IF i <= t THEN hour ELSE (hour + 1) % 24

\* An exception that no handler catches: FastAPI answers 500.
unhandled ==
    /\ status' = 500
    /\ detail' = "Internal Server Error"
    /\ pc' = "done"
    /\ response' = None

\* lines 178-235: the two randint draws from the snapshot's ranges, the nine
\* fares and the response.  A key the snapshot lacks raises KeyError.
BuildQuotes ==
    /\ pc = "quote"
    /\ LET m == market[1]
           dist == distance[1]
       IN  IF "probability_range" \notin DOMAIN m
           THEN /\ unhandled
                /\ UNCHANGED <<hour, acceptance_probability, estimated_eta, fares,
                               fare_reads>>
           ELSE IF "eta_range" \notin DOMAIN m
           THEN /\ unhandled
                /\ \E ap \in randint(m.probability_range[1], m.probability_range[2]) :
                       acceptance_probability' = Some(ap)
                /\ UNCHANGED <<hour, estimated_eta, fares, fare_reads>>
           ELSE \E ap \in randint(m.probability_range[1], m.probability_range[2]),
                   eta \in randint(m.eta_range[1], m.eta_range[2]),
                   t \in 0..10 :
                \E fs \in choices([i \in 1..9 |->
                            calculate_fare(dist, catalog[i].base, catalog[i].per_km,
                                           surge[1], hour_at(i, t))]),
                   km \in round_half(dist, 10) :
                    /\ acceptance_probability' = Some(ap)
                    /\ estimated_eta' = Some(eta)
                    /\ fares' = Some(fs)
                    /\ fare_reads' = Some([i \in 1..9 |->
                            [time_increment |-> time_increment(hour_at(i, t)),
                             surge |-> surge[1]]])
                    /\ hour' = hour_at(10, t)
                    /\ IF {"availability_level", "visible_vehicles"} \subseteq DOMAIN m
                       THEN /\ status' = 200
                            /\ detail' = ""
                            /\ pc' = "done"
                            /\ response' = Some(
                                 [metrics |->
                                    [distance_km |-> km,
                                     demand |-> demand[1],
                                     supply |-> supply[1],
                                     surge |-> surge[1],
                                     time_increment |-> time_increment(hour_at(10, t))],
                                  driver_simulation |->
                                    [availability_level |-> m.availability_level,
                                     visible_nearby_captains |-> m.visible_vehicles,
                                     acceptance_probability_percent |-> ap,
                                     estimated_arrival_time_minutes |-> eta],
                                  fares |-> fs,
                                  start_coords |-> lat1[1],
                                  end_coords |-> lat2[1]])
                       ELSE unhandled
    /\ UNCHANGED <<request, lat1, lat2, distance, demand, supply, surge, market,
                   draws, call, app_vars>>

Next ==
    \/ Tick
    \/ \E p \in Places, d \in Places : Receive(p, d)
    \/ \E a1 \in Nominatim, a2 \in Nominatim : Geocode(a1, a2)
    \/ CheckCoordinates
    \/ \E o \in {None} \cup {Some(m) : m \in RouteDistances} : Route(o)
    \/ \E dm \in randint(50, 120), sp \in randint(30, 100) : Simulate(dm, sp)
    \/ MarketConditions
    \/ BuildQuotes

Spec == Init /\ [][Next]_vars

(***************************************************************************)
(* The functions of both files applied to bounded inputs.  `call` records  *)
(* the application in progress: the function, its arguments, the clock    *)
(* hour it read, and what it returns.                                      *)
(***************************************************************************)
FnDemands == 0..MaxDemand \cup {60, 100}
FnSupplies == 0..MaxSupply \cup {50, 60}
FnDistances == 0..MaxMeters \cup {5000}
Surges == {10, 12, 15, 20}

CallSurgeMultiplier(dm, sp) ==
    /\ call = None
    /\ call' = Some([fn |-> "surge_multiplier", demand |-> dm, supply |-> sp,
                     ret |-> surge_multiplier(dm, sp)])
    /\ UNCHANGED <<hour, req_vars, app_vars>>

CallAppSurgeMultiplier(dm, sp) ==
    /\ call = None
    /\ call' = Some([fn |-> "app_surge_multiplier", demand |-> dm, supply |-> sp,
                     ret |-> app_surge_multiplier(dm, sp)])
    /\ UNCHANGED <<hour, req_vars, app_vars>>

CallTimeIncrement ==
    /\ call = None
    /\ call' = Some([fn |-> "time_increment", hour |-> hour,
                     branch |-> time_increment_branch(hour),
                     ret |-> time_increment(hour)])
    /\ UNCHANGED <<hour, req_vars, app_vars>>

CallDriverMarketConditions ==
    /\ call = None
    /\ \E m \in driver_market_conditions(hour) :
           call' = Some([fn |-> "driver_market_conditions", hour |-> hour,
                         branch |-> market_branch(hour), ret |-> m])
    /\ UNCHANGED <<hour, req_vars, app_vars>>

CallCalculateFare(dist, i, sg) ==
    /\ call = None
    /\ \E r \in calculate_fare(dist, catalog[i].base, catalog[i].per_km, sg, hour) :
           call' = Some([fn |-> "calculate_fare", distance_meters |-> dist,
                         base |-> catalog[i].base, per_km |-> catalog[i].per_km,
                         surge |-> sg, hour |-> hour,
                         increment |-> time_increment(hour), ret |-> r])
    /\ UNCHANGED <<hour, req_vars, app_vars>>

CallAppCalculateFare(dist, i, sg) ==
    /\ call = None
    /\ \E r \in app_calculate_fare(dist, catalog[i].base, catalog[i].per_km, sg) :
           call' = Some([fn |-> "app_calculate_fare", distance_meters |-> dist,
                         base |-> catalog[i].base, per_km |-> catalog[i].per_km,
                         surge |-> sg, increment |-> 0, ret |-> r])
    /\ UNCHANGED <<hour, req_vars, app_vars>>

\* The application returns to its caller.
Return ==
    /\ call # None
    /\ call' = None
    /\ UNCHANGED <<hour, req_vars, app_vars>>

NextFn ==
    \/ Tick
    \/ Return
    \/ \E dm \in FnDemands, sp \in FnSupplies : CallSurgeMultiplier(dm, sp)
    \/ \E dm \in FnDemands, sp \in FnSupplies : CallAppSurgeMultiplier(dm, sp)
    \/ CallTimeIncrement
    \/ CallDriverMarketConditions
    \/ \E dist \in FnDistances, i \in 1..9, sg \in Surges : CallCalculateFare(dist, i, sg)
    \/ \E dist \in FnDistances, i \in 1..9, sg \in Surges : CallAppCalculateFare(dist, i, sg)

SpecFn == Init /\ [][NextFn]_vars

(***************************************************************************)
(* app.py: one Streamlit session.  Every user interaction reruns the whole *)
(* script; st.session_state is what survives from one run to the next.     *)
(***************************************************************************)
session_init_reset(s) == [ride_data |-> None]

\* lines 15-16
session_init(s) ==
    IF "ride_data" \notin DOMAIN s THEN [ride_data |-> None] ELSE s

\* line 148: the estimate the DISPLAY RESULTS section renders, if any
display_results(s) ==
    IF s.ride_data # None THEN s.ride_data ELSE None

\* A rerun in which the button is not pressed (a text input was edited, the map
\* was touched): lines 15-16, 73-76 with st.button False, then 148-198.
RerunWithoutButton(p, d) ==
    /\ run_no < MaxRuns
    /\ run_no' = run_no + 1
    /\ app_pickup' = p
    /\ app_drop' = d
    /\ session' = session_init(session)
    /\ displayed' = display_results(session_init(session))
    /\ app_error' = ""
    /\ last_run' = "rerun"
    /\ UNCHANGED <<hour, req_vars, call, computed_run, last_computed>>

\* A run in which Compare Fares is pressed: lines 15-16, 73-142, then 148-198
\* unless st.stop() ended the run.  The geocoder's answers, the routing outcome
\* (None when it raised) and the two draws are chosen where the script reaches them.
CompareFares(p, d) ==
    /\ run_no < MaxRuns
    /\ run_no' = run_no + 1
    /\ app_pickup' = p
    /\ app_drop' = d
    /\ LET s0 == session_init(session)
       IN  IF strip(p) = <<>> \/ strip(d) = <<>>
           THEN /\ app_error' = "Please enter both pickup and drop locations."
                /\ session' = s0
                /\ displayed' = None
                /\ last_run' = "empty_input"
                /\ UNCHANGED <<computed_run, last_computed>>
           ELSE \E a1 \in Nominatim, a2 \in Nominatim :
             LET c1 == app_get_coordinates(p, a1)
                 c2 == app_get_coordinates(d, a2)
             IN  IF c1 = None \/ c2 = None
                 THEN /\ app_error' = "Invalid location entered."
                      /\ session' = s0
                      /\ displayed' = None
                      /\ last_run' = "geocode_failed"
                      /\ UNCHANGED <<computed_run, last_computed>>
                 ELSE \E route \in {None} \cup {Some(m) : m \in RouteDistances} :
                   IF route = None
                   THEN /\ app_error' = "Route not found."
                        /\ session' = s0
                        /\ displayed' = None
                        /\ last_run' = "route_failed"
                        /\ UNCHANGED <<computed_run, last_computed>>
                   ELSE \E dm \in randint(50, 120), sp \in randint(30, 100) :
                     LET sg == app_surge_multiplier(dm, sp)
                     IN  \E fs \in choices([i \in 1..9 |->
                                    app_calculate_fare(route[1], catalog[i].base,
                                                       catalog[i].per_km, sg)]) :
                           LET data == [G |-> c1[1],
                                        route |-> <<c1[1], c2[1]>>,
                                        distance |-> route[1],
                                        demand |-> dm,
                                        supply |-> sp,
                                        surge |-> sg,
                                        rapido |-> SubSeq(fs, 1, 3),
                                        ola |-> SubSeq(fs, 4, 6),
                                        uber |-> SubSeq(fs, 7, 9)]
                               s1 == [s0 EXCEPT !.ride_data = Some(data)]
                           IN  /\ session' = s1
                               /\ displayed' = display_results(s1)
                               /\ app_error' = ""
                               /\ last_run' = "compare_ok"
                               /\ computed_run' = run_no + 1
                               /\ last_computed' = Some(data)
    /\ UNCHANGED <<hour, req_vars, call>>

NextApp ==
    \/ \E p \in Places, d \in Places : RerunWithoutButton(p, d)
    \/ \E p \in Places, d \in Places : CompareFares(p, d)

SpecApp == Init /\ [][NextApp]_vars

(***************************************************************************)
(* Properties.                                                             *)
(***************************************************************************)
Abs(x) == IF x < 0 THEN -x ELSE x

\* The request got past geocoding and routing and has ended.
core_ended == pc = "done" /\ distance # None

\* The keys calculate_ride reads from the market snapshot, lines 179-223.
market_keys_read ==
    {"probability_range", "eta_range", "availability_level", "visible_vehicles"}

\* C1: once both geocodings and the routing have succeeded, the request ends
\* with an estimate response and never with an error, and every field the
\* handler reads from the market snapshot is in the snapshot.
C1_CoreIsTotal ==
    /\ core_ended => (status = 200 /\ response # None)
    /\ market # None => market_keys_read \subseteq DOMAIN market[1]

\* The application in progress is of function f.
calling(f) == call # None /\ call[1].fn = f

\* The unrounded value fare * surge of an application of calculate_fare, in
\* ten-thousandths: (base + increment + per_km * metres / 1000) * surge.
exact_fare(c, metres) ==
    ((c.base + c.increment) * 1000 + c.per_km * metres) * c.surge

\* C2: calculate_fare returns (base + increment + per_km * metres/1000) * surge
\* rounded to 2 decimals, the increment added before the surge is applied;
\* 5000 m, base 10, per-km 4, surge 1.2, increment 20 gives 60.00 and
\* 0 m, base 10, per-km 4, surge 1.0, increment 0 gives 10.00.
C2_FareFormula ==
    calling("calculate_fare") =>
        LET c == call[1]
        IN  /\ 2 * Abs(100 * c.ret - exact_fare(c, c.distance_meters)) <= 100
            /\ (c.distance_meters = 5000 /\ c.base = 10 /\ c.per_km = 4
                    /\ c.surge = 12 /\ c.increment = 20) => c.ret = 6000
            /\ (c.distance_meters = 0 /\ c.base = 10 /\ c.per_km = 4
                    /\ c.surge = 10 /\ c.increment = 0) => c.ret = 1000

C2_Witness ==
    /\ calling("calculate_fare")
    /\ call[1].distance_meters = 5000
    /\ call[1].base = 10
    /\ call[1].per_km = 4
    /\ call[1].surge = 12
    /\ call[1].increment = 20
    /\ call[1].ret = 6000

\* The surge function of the file an application belongs to.
surge_of(f, dm, sp) ==
    IF f = "surge_multiplier" THEN surge_multiplier(dm, sp)
    ELSE app_surge_multiplier(dm, sp)

calling_surge == calling("surge_multiplier") \/ calling("app_surge_multiplier")

\* C3: both copies of surge_multiplier return 2.0 when supply = 0, otherwise
\* 1.0 for demand/supply < 1, 1.2 for 1 <= ratio < 1.5, 1.5 for 1.5 <= ratio < 2
\* and 2.0 for ratio >= 2 (demand 100, supply 50 gives 2.0); the result is one
\* of 1.0, 1.2, 1.5, 2.0 and is non-decreasing in the ratio.
C3_SurgeLadder ==
    calling_surge =>
        LET c == call[1]
            dm == c.demand
            sp == c.supply
        IN  /\ c.ret \in {10, 12, 15, 20}
            /\ sp = 0 => c.ret = 20
            /\ (sp > 0 /\ dm < sp) => c.ret = 10
            /\ (sp > 0 /\ sp <= dm /\ 2 * dm < 3 * sp) => c.ret = 12
            /\ (sp > 0 /\ 3 * sp <= 2 * dm /\ dm < 2 * sp) => c.ret = 15
            /\ (sp > 0 /\ 2 * sp <= dm) => c.ret = 20
            /\ (dm = 100 /\ sp = 50) => c.ret = 20
            /\ \A dm2 \in FnDemands, sp2 \in FnSupplies \ {0} :
                   (sp > 0 /\ dm2 * sp <= dm * sp2) => surge_of(c.fn, dm2, sp2) <= c.ret

C3_Witness ==
    /\ calling("surge_multiplier")
    /\ call[1].demand = 100
    /\ call[1].supply = 50
    /\ call[1].ret = 20

\* C4 as stated: at demand = supply > 0 surge_multiplier returns 1.0.
C4_RatioOneGivesOne ==
    (calling_surge /\ call[1].supply > 0 /\ call[1].demand = call[1].supply)
        => call[1].ret = 10

\* C4 as amended: at demand = supply > 0 (ratio exactly 1) both copies of
\* surge_multiplier return 1.2, the value of the "< 1.5" branch.
C4_RatioOneGivesOnePointTwo ==
    (calling_surge /\ call[1].supply > 0 /\ call[1].demand = call[1].supply)
        => call[1].ret = 12

C4_Witness ==
    /\ calling("surge_multiplier")
    /\ call[1].demand = 60
    /\ call[1].supply = 60
    /\ call[1].ret = 12

\* C5: a request that got past geocoding and routing reports an acceptance
\* probability that is an integer of 10..99 and an ETA that is an integer >= 2.
C5_ReportedRanges ==
    core_ended =>
        /\ response # None
        /\ response[1].driver_simulation.acceptance_probability_percent \in 10..99
        /\ response[1].driver_simulation.estimated_arrival_time_minutes >= 2

\* C6: a pickup or drop without coordinates ends the request with 400, a
\* routing failure ends it with 500, and in both cases the request made no
\* demand/supply draw and computed no surge, market snapshot or fare; the
\* simulation runs only with both coordinates and a distance.
C6_ShortCircuit ==
    /\ pc \in {"route", "simulate", "market", "quote"} => (lat1 # None /\ lat2 # None)
    /\ (pc = "done" /\ (lat1 = None \/ lat2 = None)) =>
           (status = 400 /\ detail = "Invalid locations. Could not geocode.")
    /\ (pc = "done" /\ lat1 # None /\ lat2 # None /\ distance = None) => status = 500
    /\ (pc = "done" /\ distance = None) =>
           /\ draws = 0
           /\ demand = None
           /\ supply = None
           /\ surge = None
           /\ market = None
           /\ fares = None
           /\ response = None
    /\ draws > 0 => (lat1 # None /\ lat2 # None /\ distance # None)

C6_Witness ==
    /\ pc = "done"
    /\ status = 400
    /\ lat1 # None
    /\ lat2 = None
    /\ draws = 0

\* The five time bands of the specification and their increments.
band_lo == <<0, 6, 10, 15, 21>>
band_hi == <<6, 10, 15, 21, 24>>
band_increment == <<100, 20, 30, 0, 30>>
bands_of(h) == {i \in 1..5 : band_lo[i] <= h /\ h < band_hi[i]}
true_at(conds) == {i \in 1..Len(conds) : conds[i]}

\* C7: the bands [0,6) [6,10) [10,15) [15,21) [21,24) partition the hours; at
\* every hour exactly one condition of time_increment and exactly one of
\* driver_market_conditions holds, both pick the hour's band, the increment
\* is 100, 20, 30, 0, 30 by band, and neither fall-through is produced.
C7_BandsPartition ==
    /\ Cardinality(bands_of(hour)) = 1
    /\ true_at(time_increment_conds(hour)) = bands_of(hour)
    /\ true_at(market_conds(hour)) = bands_of(hour)
    /\ calling("time_increment") =>
           /\ call[1].branch \in bands_of(call[1].hour)
           /\ call[1].ret = band_increment[call[1].branch]
    /\ calling("driver_market_conditions") =>
           /\ call[1].branch \in bands_of(call[1].hour)
           /\ call[1].branch = time_increment_branch(call[1].hour)
           /\ call[1].ret.availability_level # "Unknown"

C7_Witness ==
    /\ calling("driver_market_conditions")
    /\ call[1].hour = 21
    /\ call[1].branch = 5
    /\ call[1].ret.availability_level = "Medium-High"

calling_fare == calling("calculate_fare") \/ calling("app_calculate_fare")

\* What the same copy of calculate_fare can return for twice the distance.
fare_at_double(c) ==
    IF c.fn = "calculate_fare"
    THEN calculate_fare(2 * c.distance_meters, c.base, c.per_km, c.surge, c.hour)
    ELSE app_calculate_fare(2 * c.distance_meters, c.base, c.per_km, c.surge)

\* per_km * d/1000 * surge in ten-thousandths.
distance_term(c) == c.per_km * c.distance_meters * c.surge

\* C8 as stated: calculate_fare(2d) - calculate_fare(d) equals
\* per_km * d/1000 * surge exactly, for every distance.
C8_ExactlyLinear ==
    calling_fare =>
        \A r2 \in fare_at_double(call[1]) :
            100 * (r2 - call[1].ret) = distance_term(call[1])

\* C8 as amended: calculate_fare(2d) - calculate_fare(d) differs from
\* per_km * d/1000 * surge by at most 0.01, and equals it when the unrounded
\* fares at d and at 2d are both whole numbers of hundredths.
C8_LinearUpToRounding ==
    calling_fare =>
        LET c == call[1]
        IN  \A r2 \in fare_at_double(c) :
              /\ Abs(100 * (r2 - c.ret) - distance_term(c)) <= 100
              /\ (exact_fare(c, c.distance_meters) % 100 = 0
                    /\ exact_fare(c, 2 * c.distance_meters) % 100 = 0)
                   => 100 * (r2 - c.ret) = distance_term(c)

C8_Witness ==
    /\ calling("calculate_fare")
    /\ call[1].distance_meters = 3
    /\ distance_term(call[1]) % 100 # 0
    /\ \E r2 \in fare_at_double(call[1]) :
           100 * (r2 - call[1].ret) # distance_term(call[1])

\* C9: a request that got past geocoding and routing drew demand and supply
\* exactly once, computed all nine fares with the one surge and one time
\* increment, and reports that surge and that increment in its metrics.
C9_OneSnapshot ==
    core_ended =>
        /\ draws = 1
        /\ fare_reads # None
        /\ response # None
        /\ response[1].metrics.surge = surge[1]
        /\ \A i \in 1..9 :
               /\ fare_reads[1][i].surge = response[1].metrics.surge
               /\ fare_reads[1][i].time_increment = response[1].metrics.time_increment

\* The route the current run's inputs stand for.
inputs_route == <<strip(app_pickup), strip(app_drop)>>

\* C10 as stated: an estimate is displayed only in the run that computed it,
\* from that run's pickup and drop.
C10_NothingRetained ==
    displayed # None =>
        (computed_run = run_no /\ displayed[1].route = inputs_route)

\* C10 as amended: the estimate of the latest successful Compare-Fares request
\* is kept in st.session_state.ride_data; the run that computed it displays it
\* (computed from that run's inputs), every later rerun without a button press
\* displays it again whatever the inputs are then, and a run whose request
\* fails displays nothing and leaves the kept estimate as it was.
C10_LastEstimateRetained ==
    /\ run_no > 0 => session.ride_data = last_computed
    /\ last_run \in {"empty_input", "geocode_failed", "route_failed"} =>
           (displayed = None /\ app_error # "")
    /\ last_run = "compare_ok" =>
           /\ displayed # None
           /\ displayed = last_computed
           /\ computed_run = run_no
           /\ displayed[1].route = inputs_route
    /\ last_run = "rerun" => displayed = last_computed

C10_Witness ==
    /\ last_run = "rerun"
    /\ displayed # None
    /\ computed_run < run_no
    /\ displayed[1].route # inputs_route

====
